---- MODULE Spec2Model ----
(***************************************************************************)
(* A model of mtglabels/generator.py: one run of LabelGenerator, from the  *)
(* constructed object to the last page written, in uniform mode            *)
(* (generate_labels) or wide mode (generate_color_set_mode).               *)
(*                                                                         *)
(* Lengths are tenths of a millimetre, as in the source.  The source       *)
(* divides with "/" (delta_x, delta_y are floats); the model keeps every   *)
(* coordinate that involves a delta as an exact rational with denominator  *)
(* Unit = COLS * ROWS: the fields x, y and the variables delta_x, delta_y  *)
(* hold the value multiplied by Unit.  Guide ticks use MARGIN / 2 and      *)
(* MARGIN * 0.8; their fields hold the value multiplied by TickUnit.       *)
(*                                                                         *)
(* Strings that the program converts (set codes, symbols) are sequences of *)
(* one-character strings, so that lower() and strip() are computed.        *)
(***************************************************************************)
EXTENDS Integers, Sequences, FiniteSets, TLC

\* ------------------------------------------------------------ constants

COLS == 4
ROWS == 15
\* the class attribute MARGIN; an instance may shadow it (variable MARGIN)
CLASS_MARGIN == 100
\* START_X = MARGIN and START_Y = MARGIN are evaluated once, in the class body
START_X == CLASS_MARGIN
START_Y == CLASS_MARGIN
WIDE_LABEL_MM == 88
MINIMUM_SET_SIZE == 50

Unit == COLS * ROWS
TickUnit == 2 * 5

PAPER_SIZES ==
    [letter |-> [width |-> 2790, height |-> 2160],
     a4     |-> [width |-> 2970, height |-> 2100]]

S(str) ==
    CASE str = "lea"  -> <<"l", "e", "a">>
      [] str = "LEA"  -> <<"L", "E", "A">>
      [] str = "cmb1" -> <<"c", "m", "b", "1">>
      [] str = "amh1" -> <<"a", "m", "h", "1">>
      [] str = "cmb2" -> <<"c", "m", "b", "2">>
      [] str = "pd2"  -> <<"p", "d", "2">>
      [] str = "tlea" -> <<"t", "l", "e", "a">>
      [] str = "mh1"  -> <<"m", "h", "1">>
      [] str = "neo"  -> <<"n", "e", "o">>
      [] str = "zzzz" -> <<"z", "z", "z", "z">>
      [] str = "ZZZZ" -> <<"Z", "Z", "Z", "Z">>
      [] str = "yy"   -> <<"y", "y">>

IGNORED_SETS == {S("cmb1"), S("amh1"), S("cmb2")}

SET_TYPES ==
    {"core", "expansion", "starter", "masters", "commander", "planechase",
     "draft_innovation", "duel_deck", "premium_deck", "from_the_vault",
     "archenemy", "box", "funny"}

COLOR_SYMBOLS == << <<"W">>, <<"U">>, <<"B">>, <<"R">>, <<"G">>, <<"C">> >>

\* ------------------------------------------------------------ helpers

Max(a, b) == IF a >= b THEN a ELSE b

Min(a, b) == IF a <= b THEN a ELSE b

Range(s) == {s[i] : i \in 1..Len(s)}

UpperLetters ==
    <<"A", "B", "C", "D", "E", "F", "G", "H", "I", "J", "K", "L", "M",
      "N", "O", "P", "Q", "R", "S", "T", "U", "V", "W", "X", "Y", "Z">>

LowerLetters ==
    <<"a", "b", "c", "d", "e", "f", "g", "h", "i", "j", "k", "l", "m",
      "n", "o", "p", "q", "r", "s", "t", "u", "v", "w", "x", "y", "z">>

\* the lower-case letter of each upper-case letter
LowerTable ==
    [c \in {UpperLetters[i] : i \in 1..Len(UpperLetters)} |->
        LowerLetters[CHOOSE i \in 1..Len(UpperLetters) : UpperLetters[i] = c]]

LowerChar(c) == IF c \in DOMAIN LowerTable THEN LowerTable[c] ELSE c

\* str.lower()
Lower(s) == [i \in 1..Len(s) |-> LowerChar(s[i])]

\* [exp.lower() for exp in sets]
LowerAll(codes) == [i \in 1..Len(codes) |-> Lower(codes[i])]

Braces == {"{", "}"}

RECURSIVE LStrip(_)
LStrip(s) ==
    IF s # <<>> /\ Head(s) \in Braces THEN LStrip(Tail(s)) ELSE s

RECURSIVE RStrip(_)
RStrip(s) ==
    IF s # <<>> /\ s[Len(s)] \in Braces
    THEN RStrip(SubSeq(s, 1, Len(s) - 1))
    ELSE s

\* str.strip("{}")
StripBraces(s) == RStrip(LStrip(s))

\* list.reverse()
Reverse(s) == [i \in 1..Len(s) |-> s[Len(s) + 1 - i]]

\* base64.b64encode(content).decode("utf-8"); None is the empty tuple
None == <<>>

B64Encode(content) == <<"b64">> \o content

\* int(round(margin_mm * 10)) for margin_mm given in hundredths of a
\* millimetre: Python rounds a half to the even neighbour
RoundTenths(h) ==
    LET q == h \div 10
        r == h % 10
    IN  IF r < 5 THEN q
        ELSE IF r > 5 THEN q + 1
        ELSE IF q % 2 = 0 THEN q ELSE q + 1

\* all orders in which a set can be iterated
Orders(set) ==
    {s \in [1..Cardinality(set) -> set] :
        \A i, j \in 1..Cardinality(set) : i # j => s[i] # s[j]}

\* all sequences without repetition over a set, up to a length
InjSeqs(set, n) ==
    UNION {{s \in [1..k -> set] : \A i, j \in 1..k : i # j => s[i] # s[j]} :
           k \in 0..n}

\* ------------------------------------------------------------ __init__

\* PaperOf without the swap of portrait orientation
PaperOfUnswapped(size, is_portrait) == PAPER_SIZES[size]

\* paper = PAPER_SIZES[paper_size].copy(), swapped when portrait
PaperOf(size, is_portrait) ==
    IF is_portrait
    THEN [width |-> PAPER_SIZES[size].height, height |-> PAPER_SIZES[size].width]
    ELSE PAPER_SIZES[size]

\* self.MARGIN after __init__; mm is None or a one-element tuple holding
\* margin_mm in hundredths of a millimetre
MarginOf(mm) == IF mm = None THEN CLASS_MARGIN ELSE RoundTenths(mm[1])

\* self.delta_x = (self.width - 2 * self.MARGIN) / self.COLS, times Unit
DeltaX(w, margin) == ((w - 2 * margin) * Unit) \div COLS

\* self.delta_y = (self.height - 2 * self.MARGIN) / self.ROWS, times Unit
DeltaY(h, margin) == ((h - 2 * margin) * Unit) \div ROWS

\* ------------------------------------------------------------ get_set_data

\* the if / elif chain of the loop: TRUE when exp is appended
Keeps(exp, ign, minsize, types, codes) ==
    IF exp.code \in ign THEN FALSE
    ELSE IF exp.card_count < minsize THEN FALSE
    ELSE IF types # {} /\ exp.set_type \notin types THEN FALSE
    ELSE IF codes # <<>> /\ Lower(exp.code) \notin Range(codes) THEN FALSE
    ELSE TRUE

\* the loop over data: the records appended to set_data, in catalog order
FilterLoop(data, ign, minsize, types, codes) ==
    SelectSeq(data, LAMBDA exp : Keeps(exp, ign, minsize, types, codes))

\* SetData without the final set_data.reverse()
SetDataUnreversed(data, ign, minsize, types, codes) ==
    FilterLoop(data, ign, minsize, types, codes)

\* the list get_set_data returns
SetData(data, ign, minsize, types, codes) ==
    Reverse(FilterLoop(data, ign, minsize, types, codes))

\* UnknownSets with the difference taken the other way round
UnknownSetsSwapped(data, codes) ==
    {exp.code : exp \in Range(data)} \ {Lower(c) : c \in Range(codes)}

\* unknown_sets = specified_sets.difference(known_sets)
UnknownSets(data, codes) ==
    {Lower(c) : c \in Range(codes)} \ {exp.code : exp \in Range(data)}

WarnEntry(code) == [level |-> "warning", msg |-> "unknown_set", arg |-> code]

\* ------------------------------------------------------------ icon fetches

\* icon_b64 of one requests.get whose outcome is known not to raise
IconB64(outcome, uri) == IF outcome = "ok" THEN B64Encode(uri) ELSE None

\* the raw item get_set_label_raw appends for exp
SetRawItem(exp) ==
    [code     |-> exp.code,
     icon_url |-> exp.icon_svg_uri,
     icon_b64 |-> IconB64(exp.icon, exp.icon_svg_uri)]

\* get_set_label_raw's loop; a network-level failure of requests.get raises
\* out of the loop at the first such record (ok = FALSE, raw holds the items
\* appended before it), an HTTP error status leaves icon_b64 None
SetLabelLoop(set_list) ==
    LET failing == {i \in 1..Len(set_list) : set_list[i].icon = "network_error"}
        stop    == IF failing = {} THEN Len(set_list) + 1
                   ELSE CHOOSE i \in failing : \A j \in failing : i <= j
    IN  [ok  |-> failing = {},
         raw |-> [i \in 1..(stop - 1) |-> SetRawItem(set_list[i])]]

\* symbol_map.get(code): the last item of data with that stripped symbol
\* and an svg_uri; 0 when there is none
SymbolIndex(data, code) ==
    LET hits == {i \in 1..Len(data) :
                    StripBraces(data[i].symbol) = code /\ data[i].svg_uri # None}
    IN  IF hits = {} THEN 0 ELSE CHOOSE i \in hits : \A j \in hits : j <= i

\* get_color_label_raw's loop over COLOR_SYMBOLS (outside the try block)
RECURSIVE ColorLabelLoop(_, _, _)
ColorLabelLoop(data, k, raw) ==
    IF k > Len(COLOR_SYMBOLS) THEN [ok |-> TRUE, raw |-> raw]
    ELSE LET code == COLOR_SYMBOLS[k]
             idx  == SymbolIndex(data, code)
         IN  IF idx = 0 THEN ColorLabelLoop(data, k + 1, raw)
             ELSE IF data[idx].icon = "network_error"
                  THEN [ok |-> FALSE, raw |-> raw]
             ELSE ColorLabelLoop(data, k + 1,
                      Append(raw, [code     |-> code,
                                   icon_url |-> data[idx].svg_uri,
                                   icon_b64 |-> IconB64(data[idx].icon, data[idx].svg_uri)]))

\* color_map.get(code): color_map = {e["code"]: e for e in color_entries}
ColorIndex(entries, code) ==
    LET hits == {i \in 1..Len(entries) : entries[i].code = code}
    IN  IF hits = {} THEN 0 ELSE CHOOSE i \in hits : \A j \in hits : j <= i

\* the colors, in the order of COLOR_SYMBOLS, that color_map has an entry for
AvailableColors(entries) ==
    SelectSeq(COLOR_SYMBOLS, LAMBDA code : ColorIndex(entries, code) # 0)

\* set_icon_cache[exp["code"]] for the i-th record: the icon fetched for the
\* first record with that code
CachedIcon(set_list, i) ==
    LET first == CHOOSE j \in 1..i :
                    /\ set_list[j].code = set_list[i].code
                    /\ \A k \in 1..(j - 1) : set_list[k].code # set_list[i].code
    IN  IconB64(set_list[first].icon, set_list[first].icon_svg_uri)

\* the loops of generate_color_set_mode that build labels_raw: one label per
\* record and available color; a network-level failure of an icon request
\* (made once per code) raises out of the loops
WideSetLoop(set_list, entries) ==
    LET colors  == AvailableColors(entries)
        K       == Len(colors)
        failing == {i \in 1..Len(set_list) :
                       /\ set_list[i].icon = "network_error"
                       /\ \A j \in 1..(i - 1) : set_list[j].code # set_list[i].code}
        stop    == IF failing = {} THEN Len(set_list) + 1
                   ELSE CHOOSE i \in failing : \A j \in failing : i <= j
    IN  [ok  |-> failing = {},
         raw |-> [n \in 1..((stop - 1) * K) |->
                    LET i == ((n - 1) \div K) + 1
                        c == colors[((n - 1) % K) + 1]
                    IN  [set_code       |-> set_list[i].code,
                         set_icon_b64   |-> CachedIcon(set_list, i),
                         color_code     |-> c,
                         color_icon_b64 |-> entries[ColorIndex(entries, c)].icon_b64]]]

\* ------------------------------------------------------------ layout

\* layout_labels: col and row are the loop's locals, kept with the label
LayoutLabels(raw, dx, dy) ==
    [i \in 1..Len(raw) |->
        LET idx == i - 1
            col == (idx \div ROWS) % COLS
            row == idx % ROWS
        IN  [code     |-> raw[i].code,
             icon_url |-> raw[i].icon_url,
             icon_b64 |-> raw[i].icon_b64,
             col      |-> col,
             row      |-> row,
             x        |-> START_X * Unit + col * dx,
             y        |-> START_Y * Unit + row * dy]]

\* WideColumnCount without the clamp to one column
WideColumnCountUnclamped(w, margin, wmm) == (w - 2 * margin) \div (wmm * 10)

\* cols = max(1, int(usable // cell_w)) for a label wmm millimetres wide
WideColumnCount(w, margin, wmm) ==
    LET cell_w == wmm * 10
        usable == w - 2 * margin
    IN  Max(1, usable \div cell_w)

\* LayoutWideLabels with page_index counted in pages of COLS columns
LayoutWideLabelsUniformPages(raw, cols, dy) ==
    [i \in 1..Len(raw) |->
        LET idx    == i - 1
            cell_w == WIDE_LABEL_MM * 10
            col    == idx % cols
            row    == (idx \div cols) % ROWS
        IN  [set_code       |-> raw[i].set_code,
             set_icon_b64   |-> raw[i].set_icon_b64,
             color_code     |-> raw[i].color_code,
             color_icon_b64 |-> raw[i].color_icon_b64,
             col            |-> col,
             row            |-> row,
             x              |-> (START_X + col * cell_w) * Unit,
             y              |-> START_Y * Unit + row * dy,
             width          |-> cell_w,
             page_index     |-> idx \div (COLS * ROWS)]]

\* layout_wide_labels, given cols
LayoutWideLabels(raw, cols, dy) ==
    [i \in 1..Len(raw) |->
        LET idx    == i - 1
            cell_w == WIDE_LABEL_MM * 10
            col    == idx % cols
            row    == (idx \div cols) % ROWS
        IN  [set_code       |-> raw[i].set_code,
             set_icon_b64   |-> raw[i].set_icon_b64,
             color_code     |-> raw[i].color_code,
             color_icon_b64 |-> raw[i].color_icon_b64,
             col            |-> col,
             row            |-> row,
             x              |-> (START_X + col * cell_w) * Unit,
             y              |-> START_Y * Unit + row * dy,
             width          |-> cell_w,
             page_index     |-> idx \div (cols * ROWS)]]

\* FillPage with the comparison len(exps) <= cap
FillPageOverfull(exps, queue, cap) ==
    LET n == Min(Len(queue), Max(0, cap + 1 - Len(exps)))
    IN  [exps   |-> exps \o SubSeq(queue, 1, n),
         labels |-> SubSeq(queue, n + 1, Len(queue))]

\* the inner while loop of the page loops: labels.pop(0) is appended to exps
\* while labels is not empty and len(exps) < cap
FillPage(exps, queue, cap) ==
    LET n == Min(Len(queue), Max(0, cap - Len(exps)))
    IN  [exps   |-> exps \o SubSeq(queue, 1, n),
         labels |-> SubSeq(queue, n + 1, Len(queue))]

\* ------------------------------------------------------------ guides

\* the two ticks appended for one vertical guide at x (x times Unit)
VerticalTicks(x, margin, h) ==
    << [x1 |-> x, x2 |-> x,
        y1 |-> (margin * TickUnit) \div 2, y2 |-> (margin * 8 * TickUnit) \div 10],
       [x1 |-> x, x2 |-> x,
        y1 |-> h * TickUnit - (margin * TickUnit) \div 2,
        y2 |-> h * TickUnit - (margin * 8 * TickUnit) \div 10] >>

\* the two ticks appended for one horizontal guide at y (y times Unit)
HorizontalTicks(y, margin, w) ==
    << [x1 |-> (margin * TickUnit) \div 2, x2 |-> (margin * 8 * TickUnit) \div 10,
        y1 |-> y, y2 |-> y],
       [x1 |-> w * TickUnit - (margin * TickUnit) \div 2,
        x2 |-> w * TickUnit - (margin * 8 * TickUnit) \div 10,
        y1 |-> y, y2 |-> y] >>

\* WideGuideLoop without the break at the page edge
RECURSIVE WideGuideLoopNoBreak(_, _, _, _, _, _)
WideGuideLoopNoBreak(i, cols, margin, w, h, guides) ==
    IF i > cols THEN guides
    ELSE WideGuideLoopNoBreak(i + 1, cols, margin, w, h,
             guides \o VerticalTicks((margin + i * (WIDE_LABEL_MM * 10)) * Unit,
                                     margin, h))

\* _wide_vertical_guides: the loop breaks at the first x past width - MARGIN;
\* cols = 0 stands for an object without the attribute _wide_cols
RECURSIVE WideGuideLoop(_, _, _, _, _, _)
WideGuideLoop(i, cols, margin, w, h, guides) ==
    IF i > cols THEN guides
    ELSE LET x == margin + i * (WIDE_LABEL_MM * 10)
         IN  IF x > w - margin THEN guides
             ELSE WideGuideLoop(i + 1, cols, margin, w, h,
                                guides \o VerticalTicks(x * Unit, margin, h))

WideVerticalGuides(cols, margin, w, h) ==
    IF cols = 0 THEN <<>> ELSE WideGuideLoop(0, cols, margin, w, h, <<>>)

RECURSIVE HorizontalGuideLoop(_, _, _, _, _)
HorizontalGuideLoop(i, margin, w, dy, guides) ==
    IF i > ROWS THEN guides
    ELSE HorizontalGuideLoop(i + 1, margin, w, dy,
             guides \o HorizontalTicks(margin * Unit + i * dy, margin, w))

\* create_horizontal_cutting_guides
HorizontalGuides(margin, w, dy) == HorizontalGuideLoop(0, margin, w, dy, <<>>)

RECURSIVE VerticalGuideLoop(_, _, _, _, _)
VerticalGuideLoop(i, margin, h, dx, guides) ==
    IF i > COLS THEN guides
    ELSE VerticalGuideLoop(i + 1, margin, h, dx,
             guides \o VerticalTicks(margin * Unit + i * dx, margin, h))

\* create_vertical_cutting_guides
VerticalGuides(margin, h, dx) == VerticalGuideLoop(0, margin, h, dx, <<>>)

\* ------------------------------------------------------------ inputs

\* bounds of the explored inputs
MaxCatalog == 2
MaxSetsArg == 2
MaxPages == 2
MaxWideSets == 8

Uri(code) == <<"/">> \o code

\* catalog records of api.scryfall.com/sets; icon is the outcome of the
\* request for the record's icon_svg_uri.  Scryfall set codes are lowercase.
SetRecord(code, count, type, outcome) ==
    [code |-> code, card_count |-> count, set_type |-> type,
     icon_svg_uri |-> Uri(code), icon |-> outcome]

Records ==
    {SetRecord(S("lea"), 295, "core", "ok"),
     SetRecord(S("cmb1"), 121, "funny", "ok"),
     SetRecord(S("pd2"), 34, "premium_deck", "http_error"),
     SetRecord(S("tlea"), 60, "token", "ok"),
     SetRecord(S("mh1"), 254, "draft_innovation", "network_error")}

Digits == <<"0", "1", "2", "3", "4", "5", "6", "7", "8", "9">>

\* a catalog of n sets that pass the default filters; every seventh icon
\* request answers with an HTTP error status
Filler(n) ==
    [k \in 1..n |->
        SetRecord(<<"s", Digits[(k \div 100) + 1], Digits[((k \div 10) % 10) + 1],
                    Digits[(k % 10) + 1]>>,
                  100 + k, "expansion",
                  IF k % 7 = 0 THEN "http_error" ELSE "ok")]

SmallCatalogs ==
    {[status |-> "ok", data |-> d] : d \in InjSeqs(Records, MaxCatalog)}
    \cup {[status |-> st, data |-> <<>>] : st \in {"http_error", "network_error"}}

\* catalog lengths for uniform mode: with no, two or six color labels in
\* front they give runs that end in a short page, in a full page, and in a
\* page of one item
UniformSizes ==
    {k * ROWS * COLS - 6 : k \in 1..MaxPages} \cup {MaxPages * ROWS * COLS - 5}

WideSizes == {MaxWideSets - 3, MaxWideSets}

UserCodes == {S("LEA"), S("cmb1"), S("zzzz"), S("ZZZZ"), S("yy")}

SetsInputs == InjSeqs(UserCodes, MaxSetsArg)

Symbol(code, uri, outcome) == [symbol |-> code, svg_uri |-> uri, icon |-> outcome]

Braced(c) == <<"{", c, "}">>

SymFull ==
    [status |-> "ok",
     data |-> << Symbol(Braced("T"), Uri(<<"T">>), "ok"),
                 Symbol(Braced("W"), Uri(<<"W">>), "ok"),
                 Symbol(Braced("U"), Uri(<<"U">>), "ok"),
                 Symbol(Braced("B"), Uri(<<"B">>), "ok"),
                 Symbol(Braced("R"), Uri(<<"R">>), "ok"),
                 Symbol(Braced("G"), Uri(<<"G">>), "ok"),
                 Symbol(Braced("C"), Uri(<<"C">>), "ok") >>]

SymPartial ==
    [status |-> "ok",
     data |-> << Symbol(Braced("W"), Uri(<<"W">>), "ok"),
                 Symbol(Braced("U"), Uri(<<"U">>), "http_error"),
                 Symbol(Braced("B"), None, "ok") >>]

SymIconDown ==
    [status |-> "ok",
     data |-> << Symbol(Braced("W"), Uri(<<"W">>), "ok"),
                 Symbol(Braced("U"), Uri(<<"U">>), "network_error") >>]

SymDown == [status |-> "network_error", data |-> <<>>]

\* margin_mm: None, or a one-element tuple holding hundredths of a millimetre
\* (2.25 mm, 70 mm, 139.5 mm)
MarginInputs == {None, <<225>>, <<7000>>, <<13950>>}

\* the runs explored for the selection stage: default geometry, small
\* catalogs of every shape, every explicit code list
SelectionInputs ==
    [paper : {"letter"}, portrait : {FALSE}, margin_mm : {None},
     pdfs : {TRUE}, cairo : {TRUE},
     mode : {<<FALSE, FALSE>>, <<FALSE, TRUE>>},
     sets : SetsInputs, catalog : SmallCatalogs,
     symbology : {SymFull}]

\* the runs explored for layout and output: every geometry, catalogs long
\* enough to fill pages, no explicit code list
LayoutInputs ==
    [paper : DOMAIN PAPER_SIZES, portrait : BOOLEAN, margin_mm : MarginInputs,
     pdfs : BOOLEAN, cairo : BOOLEAN,
     mode : {<<FALSE, FALSE>>, <<TRUE, FALSE>>, <<FALSE, TRUE>>},
     sets : {<<>>},
     catalog : {[status |-> "ok", data |-> Filler(n)] : n \in UniformSizes \cup WideSizes},
     symbology : {SymFull, SymPartial, SymIconDown, SymDown}]

\* mode = <<include_color_labels, color_set_mode>>; long catalogs go with
\* uniform mode, the shorter ones with wide mode (six labels per set)
RunInputs ==
    SelectionInputs
    \cup {i \in LayoutInputs :
            Len(i.catalog.data) \in (IF i.mode[2] THEN WideSizes ELSE UniformSizes)}

\* ------------------------------------------------------------ state

VARIABLES
    \* the constructed LabelGenerator
    paper_size, portrait, width, height, MARGIN, delta_x, delta_y,
    generate_pdfs, include_color_labels,
    set_codes, ignored_sets, set_types, minimum_set_size,
    wide_cols,
    \* the command line and the world outside
    sets, color_set_mode, catalog, symbology, cairo_available,
    \* the run
    pc, cairosvg_mod, color_entries, set_data, raw_items, laid, labels,
    exps, page, rendered, horizontal_guides, vertical_guides, files, log

object == <<paper_size, portrait, width, height, MARGIN, delta_x, delta_y,
            generate_pdfs, include_color_labels>>

filters == <<set_codes, ignored_sets, set_types, minimum_set_size>>

world == <<sets, color_set_mode, catalog, symbology, cairo_available>>

fetched == <<color_entries, set_data, raw_items>>

output == <<exps, page, rendered, horizontal_guides, vertical_guides, files>>

vars == <<object, filters, wide_cols, world, pc, cairosvg_mod, fetched,
          laid, labels, output, log>>

\* the state after LabelGenerator(...) returned, main() about to call
\* generate_labels or generate_color_set_mode
InitWith(i) ==
    /\ paper_size = i.paper
    /\ portrait = i.portrait
    /\ width = PaperOf(i.paper, i.portrait).width
    /\ height = PaperOf(i.paper, i.portrait).height
    /\ MARGIN = MarginOf(i.margin_mm)
    /\ delta_x = DeltaX(PaperOf(i.paper, i.portrait).width, MarginOf(i.margin_mm))
    /\ delta_y = DeltaY(PaperOf(i.paper, i.portrait).height, MarginOf(i.margin_mm))
    /\ generate_pdfs = i.pdfs
    /\ include_color_labels = i.mode[1]
    /\ set_codes = <<>>
    /\ ignored_sets = IGNORED_SETS
    /\ set_types = SET_TYPES
    /\ minimum_set_size = MINIMUM_SET_SIZE
    /\ wide_cols = 0
    /\ sets = i.sets
    /\ color_set_mode = i.mode[2]
    /\ catalog = i.catalog
    /\ symbology = i.symbology
    /\ cairo_available = i.cairo
    /\ pc = "main"
    /\ cairosvg_mod = FALSE
    /\ color_entries = <<>>
    /\ set_data = <<>>
    /\ raw_items = <<>>
    /\ laid = <<>>
    /\ labels = <<>>
    /\ exps = <<>>
    /\ page = 1
    /\ rendered = <<>>
    /\ horizontal_guides = <<>>
    /\ vertical_guides = <<>>
    /\ files = <<>>
    /\ log = <<>>

Init == \E i \in RunInputs : InitWith(i)

\* ------------------------------------------------------------ actions

Info(msg, arg) == [level |-> "info", msg |-> msg, arg |-> arg]

Warning(msg, arg) == [level |-> "warning", msg |-> msg, arg |-> arg]

\* what _prepare_cairo logs: a warning when the import fails
CairoLog(available) ==
    IF available THEN <<>> ELSE <<Warning("cairo_unavailable", <<>>)>>

\* the "if sets:" block that opens generate_labels and generate_color_set_mode
RelaxFilters ==
    IF sets # <<>>
    THEN /\ ignored_sets' = {}
         /\ minimum_set_size' = 0
         /\ set_types' = {}
         /\ set_codes' = LowerAll(sets)
    ELSE UNCHANGED filters

\* the name of an output file: prefix, paper size, orientation suffix,
\* page number, extension
OutFile(prefix, ext) ==
    [prefix |-> prefix, paper_size |-> paper_size,
     orient |-> IF portrait THEN "-portrait" ELSE "",
     page |-> page, ext |-> ext]

FilePrefix == IF color_set_mode THEN "labels-color-set" ELSE "labels"

\* generate_labels, up to the call of _prepare_cairo
GenerateLabels ==
    /\ pc = "main"
    /\ ~color_set_mode
    /\ RelaxFilters
    /\ cairosvg_mod' = (generate_pdfs /\ cairo_available)
    /\ log' = IF generate_pdfs THEN log \o CairoLog(cairo_available) ELSE log
    /\ pc' = IF include_color_labels THEN "color_raw" ELSE "set_data"
    /\ UNCHANGED <<object, wide_cols, world, fetched, laid, labels, output>>

\* generate_color_set_mode, its "if sets:" block
GenerateColorSetMode ==
    /\ pc = "main"
    /\ color_set_mode
    /\ RelaxFilters
    /\ pc' = "color_raw"
    /\ UNCHANGED <<object, wide_cols, world, cairosvg_mod, fetched, laid,
                   labels, output, log>>

\* get_color_label_raw: a failed symbology request is caught and yields no
\* entries; the icon requests are made outside the try block
GetColorLabelRaw ==
    /\ pc = "color_raw"
    /\ IF symbology.status # "ok"
       THEN /\ color_entries' = <<>>
            /\ log' = Append(log, Warning("symbology_failed", <<>>))
            /\ pc' = "set_data"
       ELSE LET res == ColorLabelLoop(symbology.data, 1, <<>>)
            IN  /\ color_entries' = IF res.ok THEN res.raw ELSE color_entries
                /\ pc' = IF res.ok THEN "set_data" ELSE "aborted_color_icon"
                /\ UNCHANGED log
    /\ UNCHANGED <<object, filters, wide_cols, world, cairosvg_mod, set_data,
                   raw_items, laid, labels, output>>

\* get_set_data: the catalog request raises on any failure; the unknown
\* codes are logged in the iteration order of a Python set
GetSetData ==
    /\ pc = "set_data"
    /\ IF catalog.status # "ok"
       THEN /\ pc' = "aborted_catalog"
            /\ log' = Append(log, Info("getting_set_data", <<>>))
            /\ UNCHANGED set_data
       ELSE /\ set_data' = SetData(catalog.data, ignored_sets, minimum_set_size,
                                   set_types, set_codes)
            /\ \E order \in Orders(IF set_codes # <<>>
                                   THEN UnknownSets(catalog.data, set_codes)
                                   ELSE {}) :
                  log' = Append(log, Info("getting_set_data", <<>>))
                         \o [k \in 1..Len(order) |-> WarnEntry(order[k])]
            /\ pc' = IF color_set_mode THEN "wide_raw" ELSE "set_raw"
    /\ UNCHANGED <<object, filters, wide_cols, world, cairosvg_mod,
                   color_entries, raw_items, laid, labels, output>>

\* get_set_label_raw after get_set_data returned, and the two extend calls
\* of generate_labels
GetSetLabelRaw ==
    /\ pc = "set_raw"
    /\ LET res == SetLabelLoop(set_data)
       IN  /\ raw_items' = IF res.ok THEN color_entries \o res.raw ELSE raw_items
           /\ pc' = IF res.ok THEN "layout" ELSE "aborted_set_icon"
    /\ UNCHANGED <<object, filters, wide_cols, world, cairosvg_mod,
                   color_entries, set_data, laid, labels, output, log>>

\* labels = self.layout_labels(raw_items); page = 1
CallLayoutLabels ==
    /\ pc = "layout"
    /\ laid' = LayoutLabels(raw_items, delta_x, delta_y)
    /\ labels' = laid'
    /\ page' = 1
    /\ pc' = "pages"
    /\ UNCHANGED <<object, filters, wide_cols, world, cairosvg_mod, fetched,
                   exps, rendered, horizontal_guides, vertical_guides, files, log>>

\* the loop of generate_color_set_mode that builds labels_raw
BuildWideLabels ==
    /\ pc = "wide_raw"
    /\ LET res == WideSetLoop(set_data, color_entries)
       IN  /\ raw_items' = IF res.ok THEN res.raw ELSE raw_items
           /\ pc' = IF res.ok THEN "wide_layout" ELSE "aborted_set_icon"
    /\ UNCHANGED <<object, filters, wide_cols, world, cairosvg_mod,
                   color_entries, set_data, laid, labels, output, log>>

\* laid_out = self.layout_wide_labels(labels_raw), then page = 1 and the
\* call of _prepare_cairo
CallLayoutWideLabels ==
    /\ pc = "wide_layout"
    /\ wide_cols' = WideColumnCount(width, MARGIN, WIDE_LABEL_MM)
    /\ laid' = LayoutWideLabels(raw_items, wide_cols', delta_y)
    /\ labels' = laid'
    /\ page' = 1
    /\ cairosvg_mod' = (generate_pdfs /\ cairo_available)
    /\ log' = IF generate_pdfs THEN log \o CairoLog(cairo_available) ELSE log
    /\ pc' = "pages"
    /\ UNCHANGED <<object, filters, world, fetched, exps, rendered,
                   horizontal_guides, vertical_guides, files>>

\* one iteration of the page loop of generate_labels, up to the SVG file
RenderPage ==
    /\ pc = "pages"
    /\ ~color_set_mode
    /\ labels # <<>>
    /\ LET batch == FillPage(<<>>, labels, ROWS * COLS)
       IN  /\ exps' = batch.exps
           /\ labels' = batch.labels
           /\ rendered' = Append(rendered, [page |-> page, labels |-> batch.exps])
    /\ horizontal_guides' = HorizontalGuides(MARGIN, width, delta_y)
    /\ vertical_guides' = VerticalGuides(MARGIN, height, delta_x)
    /\ log' = Append(log, Info("writing_svg", <<page>>))
    /\ files' = Append(files, OutFile(FilePrefix, "svg"))
    /\ pc' = "pdf"
    /\ UNCHANGED <<object, filters, wide_cols, world, cairosvg_mod, fetched,
                   laid, page>>

\* one iteration of the page loop of generate_color_set_mode, up to the
\* SVG file; per_page uses _wide_cols
RenderWidePage ==
    /\ pc = "pages"
    /\ color_set_mode
    /\ labels # <<>>
    /\ LET per_page == (IF wide_cols # 0 THEN wide_cols ELSE COLS) * ROWS
           batch    == FillPage(<<>>, labels, per_page)
       IN  /\ exps' = batch.exps
           /\ labels' = batch.labels
           /\ rendered' = Append(rendered, [page |-> page, labels |-> batch.exps])
    /\ horizontal_guides' = HorizontalGuides(MARGIN, width, delta_y)
    /\ vertical_guides' = WideVerticalGuides(wide_cols, MARGIN, width, height)
    /\ log' = Append(log, Info("writing_svg", <<page>>))
    /\ files' = Append(files, OutFile(FilePrefix, "svg"))
    /\ pc' = "pdf"
    /\ UNCHANGED <<object, filters, wide_cols, world, cairosvg_mod, fetched,
                   laid, page>>

\* the rest of an iteration: the PDF when the converter was imported;
\* otherwise generate_labels logs that the page has no PDF and
\* generate_color_set_mode logs nothing; then page += 1
PdfStep ==
    /\ pc = "pdf"
    /\ IF cairosvg_mod /\ generate_pdfs
       THEN /\ log' = Append(log, Info("writing_pdf", <<page>>))
            /\ files' = Append(files, OutFile(FilePrefix, "pdf"))
       ELSE /\ log' = IF color_set_mode THEN log
                      ELSE Append(log, Info("pdf_not_generated", <<page>>))
            /\ UNCHANGED files
    /\ page' = page + 1
    /\ pc' = "pages"
    /\ UNCHANGED <<object, filters, wide_cols, world, cairosvg_mod, fetched,
                   laid, labels, exps, rendered, horizontal_guides, vertical_guides>>

\* the page loop ends and the method returns
Return ==
    /\ pc = "pages"
    /\ labels = <<>>
    /\ pc' = "done"
    /\ UNCHANGED <<object, filters, wide_cols, world, cairosvg_mod, fetched,
                   laid, labels, output, log>>

Next ==
    \/ GenerateLabels
    \/ GenerateColorSetMode
    \/ GetColorLabelRaw
    \/ GetSetData
    \/ GetSetLabelRaw
    \/ CallLayoutLabels
    \/ BuildWideLabels
    \/ CallLayoutWideLabels
    \/ RenderPage
    \/ RenderWidePage
    \/ PdfStep
    \/ Return

Spec == Init /\ [][Next]_vars

\* ------------------------------------------------------------ properties

PageCap == ROWS * COLS

UniformDone == pc = "done" /\ ~color_set_mode

\* the states in which get_set_data has just returned
SetDataReturned == pc \in {"set_raw", "wide_raw"}

\* the states in which a layout function has returned
LayoutReturned == pc \in {"pages", "pdf", "done"}

SvgFiles == SelectSeq(files, LAMBDA f : f.ext = "svg")

PdfFiles == SelectSeq(files, LAMBDA f : f.ext = "pdf")

\* C1: uniform mode, N items: ceil(N / (R*C)) pages are emitted; every page
\* but the last holds R*C items, the last holds N mod (R*C) items (R*C when
\* the remainder is 0); the pages are the consecutive slices of the input in
\* its order; for N = 0 no page is emitted and no file is written.
C1_UniformPagination ==
    UniformDone =>
        LET N == Len(raw_items)
            P == Len(rendered)
        IN  /\ Len(laid) = N
            /\ \A i \in 1..N : laid[i].code = raw_items[i].code
            /\ IF N = 0 THEN P = 0 /\ files = <<>>
               ELSE (P - 1) * PageCap < N /\ N <= P * PageCap
            /\ Len(SvgFiles) = P
            /\ \A k \in 1..P :
                  /\ rendered[k].page = k
                  /\ SvgFiles[k].page = k
                  /\ Len(rendered[k].labels) =
                        (IF k < P THEN PageCap
                         ELSE IF N % PageCap = 0 THEN PageCap ELSE N % PageCap)
                  /\ \A j \in 1..Len(rendered[k].labels) :
                        rendered[k].labels[j] = laid[(k - 1) * PageCap + j]

\* C1 witness: a finished uniform run of several pages with a short last page
C1_Witness ==
    /\ UniformDone
    /\ Len(rendered) >= 2
    /\ Len(raw_items) % PageCap # 0

\* C1 second case: a finished run without items
C1_EmptyRun == UniformDone /\ raw_items = <<>> /\ files = <<>>

\* C1 third case: a finished run whose last page is full
C1_FullLastPage == UniformDone /\ raw_items # <<>> /\ Len(raw_items) % PageCap = 0

\* the geometry the layout ran with is valid: the margin is not negative
\* and is less than half of each paper dimension
ValidGeometry == MARGIN >= 0 /\ 2 * MARGIN < width /\ 2 * MARGIN < height

\* the col and row formulas of uniform mode, for every laid-out item
UniformCells ==
    \A i \in 1..Len(laid) :
        /\ laid[i].col = ((i - 1) \div ROWS) % COLS
        /\ laid[i].row = (i - 1) % ROWS

\* C2 (as claimed): uniform mode: the item at global index i is placed at
\* col = (i div R) mod C, row = i mod R, and no two items of a page share
\* both col and row, hence no two items of a page have the same (x, y).
C2_DistinctCells ==
    (~color_set_mode /\ LayoutReturned) =>
        /\ UniformCells
        /\ \A k \in 1..Len(rendered) :
              LET p == rendered[k].labels
              IN  \A i \in 1..Len(p) : \A j \in (i + 1)..Len(p) :
                     /\ <<p[i].col, p[i].row>> # <<p[j].col, p[j].row>>
                     /\ <<p[i].x, p[i].y>> # <<p[j].x, p[j].y>>

\* C2, the part about cells alone (it holds for every geometry): the col
\* and row formulas, and no two items of a page in the same cell.
C2_CellsOnly ==
    (~color_set_mode /\ LayoutReturned) =>
        /\ UniformCells
        /\ \A k \in 1..Len(rendered) :
              LET p == rendered[k].labels
              IN  \A i \in 1..Len(p) : \A j \in (i + 1)..Len(p) :
                     <<p[i].col, p[i].row>> # <<p[j].col, p[j].row>>

\* C2, the positions under a valid geometry (it holds): no two items of a
\* page have the same (x, y).
C2_PositionsWhenValid ==
    (~color_set_mode /\ LayoutReturned /\ ValidGeometry) =>
        \A k \in 1..Len(rendered) :
            LET p == rendered[k].labels
            IN  \A i \in 1..Len(p) : \A j \in (i + 1)..Len(p) :
                   <<p[i].x, p[i].y>> # <<p[j].x, p[j].y>>

\* the width of a cell in the layout mode of the run, times Unit
CellWidth == IF color_set_mode THEN WIDE_LABEL_MM * 10 * Unit ELSE delta_x

\* C3 (as claimed): for every margin with 0 <= margin < half of each paper
\* dimension, every positioned label lies on the page: x >= 0, y >= 0,
\* x + cell_width <= page_width, y + cell_height <= page_height.
C3_LabelsOnPage ==
    (LayoutReturned /\ ValidGeometry) =>
        \A i \in 1..Len(laid) :
            /\ laid[i].x >= 0
            /\ laid[i].y >= 0
            /\ laid[i].x + CellWidth <= width * Unit
            /\ laid[i].y + delta_y <= height * Unit

\* the widths, in millimetres, over which the column count is compared
MinWideMM == 40
MaxWideMM == 200

\* C4: the wide column count is max(1, floor((paper_width - 2*margin) /
\* (W_mm*10))): at least 1, 1 when the usable width is below one cell, else
\* the largest count of cells that fit; it does not increase when W_mm
\* increases; for paper_width 2790, margin 100, W_mm 88 it is 2.
C4_WideColumnCount ==
    (color_set_mode /\ pc = "pages" /\ rendered = <<>>) =>
        LET cell_w == WIDE_LABEL_MM * 10
            usable == width - 2 * MARGIN
        IN  /\ wide_cols >= 1
            /\ usable < cell_w => wide_cols = 1
            /\ usable >= cell_w =>
                  wide_cols * cell_w <= usable /\ usable < (wide_cols + 1) * cell_w
            /\ \A w \in MinWideMM..(MaxWideMM - 1) :
                  /\ WideColumnCount(width, MARGIN, w + 1)
                        <= WideColumnCount(width, MARGIN, w)
                  /\ WideColumnCount(width, MARGIN, w + 1) >= 1
            /\ \A w \in MinWideMM..MaxWideMM :
                  (w <= WIDE_LABEL_MM => WideColumnCount(width, MARGIN, w) >= wide_cols)
                  /\ (w >= WIDE_LABEL_MM => WideColumnCount(width, MARGIN, w) <= wide_cols)
            /\ (width = 2790 /\ MARGIN = 100) => wide_cols = 2

\* C4 witness: a valid geometry whose usable width is below one cell, so
\* that the count is clamped, after layout_wide_labels ran on some items
C4_Witness ==
    /\ color_set_mode /\ pc = "pages" /\ rendered = <<>>
    /\ ValidGeometry
    /\ width - 2 * MARGIN < WIDE_LABEL_MM * 10
    /\ wide_cols = 1
    /\ laid # <<>>

\* C4 second case: the scenario of the letter page with the default margin
C4_Scenario ==
    /\ color_set_mode /\ pc = "pages"
    /\ width = 2790 /\ MARGIN = 100 /\ wide_cols = 2

\* C5: no wide-mode vertical guide lies at x > paper_width - margin, and
\* every one lies at x = margin + i * (W_mm*10) for some i in 0..columns.
C5_WideGuidesOnPage ==
    (color_set_mode /\ rendered # <<>>) =>
        \A g \in 1..Len(vertical_guides) :
            /\ vertical_guides[g].x1 <= (width - MARGIN) * Unit
            /\ vertical_guides[g].x2 = vertical_guides[g].x1
            /\ \E i \in 0..wide_cols :
                  vertical_guides[g].x1 = (MARGIN + i * WIDE_LABEL_MM * 10) * Unit

\* C5 witness: guides were emitted for a page, and the loop stopped early
\* because the next guide would lie past the page edge
C5_Witness ==
    /\ color_set_mode /\ rendered # <<>>
    /\ ValidGeometry
    /\ vertical_guides # <<>>
    /\ Len(vertical_guides) < 2 * (wide_cols + 1)

\* the records of a sequence that satisfy Test, in their order reversed
ReversedSelection(seq, Test(_)) ==
    LET sel == SelectSeq(seq, Test)
    IN  [i \in 1..Len(sel) |-> sel[Len(sel) + 1 - i]]

\* a catalog record's code is one of the codes given on the command line,
\* compared without regard to case
Listed(exp) == \E c \in Range(sets) : Lower(c) = Lower(exp.code)

\* C6: a catalog record is kept iff its code is not ignored, its size is not
\* below the minimum, its category is allowed or no category is required,
\* and, when codes are listed, its lower-cased code is listed; the kept
\* records are returned in the reverse of the catalog order; with a
\* non-empty explicit code list the other filters are relaxed, so that every
\* catalog record whose code is listed is kept.
C6_FilterStage ==
    SetDataReturned =>
        LET Kept(exp) ==
                /\ exp.code \notin ignored_sets
                /\ ~(exp.card_count < minimum_set_size)
                /\ (exp.set_type \in set_types \/ set_types = {})
                /\ (set_codes # <<>> => Lower(exp.code) \in Range(set_codes))
        IN  /\ set_data = ReversedSelection(catalog.data, Kept)
            /\ sets = <<>> =>
                  /\ ignored_sets = IGNORED_SETS
                  /\ minimum_set_size = MINIMUM_SET_SIZE
                  /\ set_types = SET_TYPES
                  /\ set_codes = <<>>
            /\ sets # <<>> => set_data = ReversedSelection(catalog.data, Listed)

\* C6 witness: get_set_data returned two listed records in reverse catalog
\* order, one of them on the ignore list and one listed in upper case
C6_Witness ==
    /\ SetDataReturned
    /\ sets # <<>>
    /\ Len(set_data) = 2
    /\ Len(catalog.data) = 2
    /\ set_data[1] = catalog.data[2]
    /\ \E i \in 1..2 : set_data[i].code \in IGNORED_SETS
    /\ \E i \in 1..2 : set_data[i].code \notin Range(sets)

\* C6 second case: the default filters drop an ignored, a small and a
\* disallowed-category record
C6_DefaultsDrop ==
    /\ SetDataReturned
    /\ sets = <<>>
    /\ Len(catalog.data) = 2
    /\ Len(set_data) = 1

\* the lower-cased listed codes that match no record of the full catalog
UnknownListed ==
    {Lower(c) : c \in {c \in Range(sets) : ~\E exp \in Range(catalog.data) :
                                               Lower(exp.code) = Lower(c)}}

\* the listed codes that match a record of the catalog, in their order
KnownListed ==
    SelectSeq(sets, LAMBDA c : \E exp \in Range(catalog.data) :
                                   Lower(exp.code) = Lower(c))

UnknownWarnings == SelectSeq(log, LAMBDA e : e.msg = "unknown_set")

\* one warning for each unknown listed code and for no other code
WarningsExact ==
    LET warnings == UnknownWarnings
        unknown  == UnknownListed
    IN  /\ \A k \in 1..Len(warnings) :
              /\ warnings[k].level = "warning"
              /\ warnings[k].arg \in unknown
        /\ \A u \in unknown :
              Cardinality({k \in 1..Len(warnings) : warnings[k].arg = u}) = 1

\* what get_set_data returns in a run given the code list `list`
SetDataOfRun(list) ==
    IF list = <<>>
    THEN SetData(catalog.data, IGNORED_SETS, MINIMUM_SET_SIZE, SET_TYPES, <<>>)
    ELSE SetData(catalog.data, {}, 0, {}, LowerAll(list))

\* C7 (as claimed): with an explicit code list, a warning is surfaced for
\* exactly the listed codes that match no record of the full catalog, once
\* per code; the selection is the one of a run in which the unknown codes
\* had not been listed.
C7_AsIfNotListed ==
    ((SetDataReturned \/ pc = "done") /\ sets # <<>>) =>
        /\ WarningsExact
        /\ set_data = SetDataOfRun(KnownListed)

\* C7 (amended): with an explicit code list, a warning is surfaced for
\* exactly the listed codes that match no record of the full catalog, once
\* per code, and the run goes on; the selection is exactly the catalog
\* records whose code is listed, which is the selection of a run without the
\* unknown codes whenever at least one listed code is known; when every
\* listed code is unknown nothing is selected.  Without a code list there is
\* no such warning.
C7_UnknownSetWarnings ==
    (SetDataReturned \/ pc = "done") =>
        IF sets = <<>> THEN UnknownWarnings = <<>>
        ELSE /\ WarningsExact
             /\ set_data = ReversedSelection(catalog.data, Listed)
             /\ KnownListed # <<>> => set_data = SetDataOfRun(KnownListed)
             /\ KnownListed = <<>> => set_data = <<>>

\* C7 witness: a run past get_set_data with a known and an unknown listed
\* code, the warning logged and the known set selected
C7_Witness ==
    /\ UnknownListed # {}
    /\ KnownListed # <<>>
    /\ UnknownWarnings # <<>>
    /\ set_data # <<>>
    /\ pc = "done"

\* C7 second case: every listed code is unknown and the catalog is not empty
C7_AllUnknown ==
    /\ sets # <<>>
    /\ KnownListed = <<>>
    /\ SetDataOfRun(<<>>) # <<>>
    /\ pc = "done"

\* the labels laid out for the sets of set_data (uniform mode: after the
\* color labels)
SetLabels == SubSeq(laid, Len(color_entries) + 1, Len(laid))

\* C8 (as claimed): a failed icon request, by HTTP status or at network
\* level, never aborts the run: the item is produced with its icon absent
\* and the remaining items are fetched, laid out and emitted.
C8_IconFailureTolerated ==
    /\ pc \notin {"aborted_set_icon", "aborted_color_icon"}
    /\ UniformDone =>
          /\ Len(SetLabels) = Len(set_data)
          /\ \A i \in 1..Len(set_data) :
                /\ SetLabels[i].code = set_data[i].code
                /\ set_data[i].icon # "ok" => SetLabels[i].icon_b64 = None

\* C8, the part about HTTP error statuses alone (it holds): a run in which
\* no icon request fails at network level is never aborted by an icon, and
\* its items with a failed icon request are emitted with the icon absent.
C8_HttpErrorTolerated ==
    /\ pc \in {"aborted_set_icon", "aborted_color_icon"} =>
          \/ \E exp \in Range(catalog.data) : exp.icon = "network_error"
          \/ \E s \in Range(symbology.data) : s.icon = "network_error"
    /\ UniformDone =>
          /\ Len(SetLabels) = Len(set_data)
          /\ \A i \in 1..Len(set_data) :
                /\ SetLabels[i].code = set_data[i].code
                /\ set_data[i].icon # "ok" => SetLabels[i].icon_b64 = None

\* C9 (as claimed): a geometry whose margin is not less than half of a paper
\* dimension is rejected before layout: no layout function and no guide
\* function runs with it.
C9_InvalidGeometryRejected ==
    LayoutReturned => (2 * MARGIN < width /\ 2 * MARGIN < height)

\* the log entries that tell of the missing raster converter
MissingBackendNotices ==
    SelectSeq(log, LAMBDA e : e.msg \in {"cairo_unavailable", "pdf_not_generated"})

\* one SVG file per rendered page, in page order, and no other file
SvgOnly ==
    /\ Len(files) = Len(rendered)
    /\ \A k \in 1..Len(files) : files[k].ext = "svg" /\ files[k].page = k

\* C10 (as claimed): with PDFs requested and the raster converter missing,
\* in both modes an SVG file is written for every page in page order, no PDF
\* is written, and the missing converter is logged once for the run, not
\* once per page.
C10_MissingBackendLoggedOnce ==
    (pc = "done" /\ generate_pdfs /\ ~cairo_available) =>
        /\ SvgOnly
        /\ Len(MissingBackendNotices) = 1

\* C10, the part that holds: the files, and the single warning of
\* _prepare_cairo; generate_labels adds one notice per page.
C10_SvgOnlyAndOneWarning ==
    (pc = "done" /\ generate_pdfs /\ ~cairo_available) =>
        /\ SvgOnly
        /\ Len(SelectSeq(log, LAMBDA e : e.msg = "cairo_unavailable")) = 1
        /\ Len(SelectSeq(log, LAMBDA e : e.msg = "pdf_not_generated"))
              = (IF color_set_mode THEN 0 ELSE Len(rendered))

\* the paper of the generator constructed with the same paper size and
\* portrait=False
Landscape == PaperOf(paper_size, FALSE)

\* C11 (as claimed): for the same paper size and identical margin,
\* cell_delta_x of a generator constructed with portrait=True equals
\* cell_delta_y of a generator constructed with portrait=False.
C11_PortraitDeltaXIsLandscapeDeltaY ==
    portrait => delta_x = DeltaY(Landscape.height, MARGIN)

\* C11 (amended): portrait swaps width and height before the deltas are
\* derived, the deltas are derived from the swapped dimensions, and for the
\* same paper size and margin COLS * cell_delta_x of the portrait generator
\* equals ROWS * cell_delta_y of the landscape one (both are the short side
\* less two margins), and ROWS * cell_delta_y of the portrait generator
\* equals COLS * cell_delta_x of the landscape one.
C11_PortraitSwap ==
    /\ width = (IF portrait THEN PAPER_SIZES[paper_size].height
                            ELSE PAPER_SIZES[paper_size].width)
    /\ height = (IF portrait THEN PAPER_SIZES[paper_size].width
                             ELSE PAPER_SIZES[paper_size].height)
    /\ delta_x * COLS = (width - 2 * MARGIN) * Unit
    /\ delta_y * ROWS = (height - 2 * MARGIN) * Unit
    /\ portrait =>
          /\ COLS * delta_x = ROWS * DeltaY(Landscape.height, MARGIN)
          /\ ROWS * delta_y = COLS * DeltaX(Landscape.width, MARGIN)

\* a portrait generator with an overridden margin has been constructed and
\* has laid out its labels
C11_Witness ==
    /\ portrait
    /\ MARGIN # CLASS_MARGIN
    /\ width < height
    /\ LayoutReturned
    /\ laid # <<>>

\* the label's left edge is on a vertical guide and its top edge on a
\* horizontal guide of the page it was rendered on
OnGuides(label) ==
    /\ \E g \in 1..Len(vertical_guides) : vertical_guides[g].x1 = label.x
    /\ \E g \in 1..Len(horizontal_guides) : horizontal_guides[g].y1 = label.y

\* C12 (as claimed): in both layout modes the start offsets equal the margin
\* in force M (default or overridden): the item at index 0 is placed at
\* (M, M), every uniform-mode item has x = M + col*cell_delta_x and
\* y = M + row*cell_delta_y, and so each label's left and top edges lie on
\* the guides at margin + col*cell_delta_x and margin + row*cell_delta_y.
C12_StartOffsetsAreMargin ==
    (LayoutReturned /\ laid # <<>>) =>
        /\ laid[1].x = MARGIN * Unit
        /\ laid[1].y = MARGIN * Unit
        /\ ~color_set_mode =>
              /\ \A i \in 1..Len(laid) :
                    /\ laid[i].x = MARGIN * Unit + laid[i].col * delta_x
                    /\ laid[i].y = MARGIN * Unit + laid[i].row * delta_y
              /\ rendered # <<>> =>
                    LET p == rendered[Len(rendered)].labels
                    IN  \A i \in 1..Len(p) : OnGuides(p[i])

\* C12, what the code does (it holds): the start offsets are the class
\* margin whatever margin is in force, so the claim's placement holds
\* exactly in the runs without a margin override.
C12_StartOffsetsAreClassMargin ==
    (LayoutReturned /\ laid # <<>>) =>
        /\ laid[1].x = CLASS_MARGIN * Unit
        /\ laid[1].y = CLASS_MARGIN * Unit
        /\ ~color_set_mode =>
              /\ \A i \in 1..Len(laid) :
                    /\ laid[i].x = CLASS_MARGIN * Unit + laid[i].col * delta_x
                    /\ laid[i].y = CLASS_MARGIN * Unit + laid[i].row * delta_y
              /\ (rendered # <<>> /\ MARGIN = CLASS_MARGIN) =>
                    LET p == rendered[Len(rendered)].labels
                    IN  \A i \in 1..Len(p) : OnGuides(p[i])

\* a uniform page rendered under a valid overridden margin whose first
\* label is not at the margin
C12_OverriddenMargin ==
    /\ ~color_set_mode
    /\ rendered # <<>>
    /\ ValidGeometry
    /\ MARGIN # CLASS_MARGIN
    /\ laid[1].x # MARGIN * Unit
    /\ ~OnGuides(rendered[1].labels[1])

\* the number of items of a wide page: the stored column count times ROWS
WidePageCap == wide_cols * ROWS

\* C13: wide mode: the item at global index i has col = i mod columns,
\* row = (i div columns) mod R and page_index = i div (columns*R); the
\* batching of generate_color_set_mode agrees with it: the k-th page
\* (counted from 1) is the k-th run of columns*R consecutive items, each of
\* its items has page_index = k - 1, it holds at most columns*R items with
\* the derived column count, and no two of its items share col and row.
C13_WidePagination ==
    (color_set_mode /\ LayoutReturned) =>
        /\ wide_cols = WideColumnCount(width, MARGIN, WIDE_LABEL_MM)
        /\ \A i \in 1..Len(laid) :
              /\ laid[i].col = (i - 1) % wide_cols
              /\ laid[i].row = ((i - 1) \div wide_cols) % ROWS
              /\ laid[i].page_index = (i - 1) \div WidePageCap
        /\ \A k \in 1..Len(rendered) :
              LET p == rendered[k].labels
              IN  /\ rendered[k].page = k
                  /\ Len(p) >= 1
                  /\ Len(p) <= WidePageCap
                  /\ p = SubSeq(laid, (k - 1) * WidePageCap + 1,
                                Min(k * WidePageCap, Len(laid)))
                  /\ \A i \in 1..Len(p) :
                        /\ p[i].page_index = k - 1
                        /\ \A j \in (i + 1)..Len(p) :
                              <<p[i].col, p[i].row>> # <<p[j].col, p[j].row>>
        /\ pc = "done" =>
              Len(rendered) = (Len(laid) + WidePageCap - 1) \div WidePageCap

\* a finished wide run of several pages whose column count is not COLS and
\* whose last page is not full
C13_Witness ==
    /\ color_set_mode
    /\ pc = "done"
    /\ wide_cols # COLS
    /\ wide_cols > 1
    /\ Len(rendered) >= 2
    /\ Len(rendered[1].labels) = WidePageCap
    /\ Len(rendered[Len(rendered)].labels) < WidePageCap
    /\ Len(laid) < COLS * ROWS

\* a finished wide run with the column count clamped to one
C13_OneColumn ==
    /\ color_set_mode
    /\ pc = "done"
    /\ wide_cols = 1
    /\ Len(rendered) >= 3

====
